---- MODULE Spec2Model ----
(***************************************************************************)
(* Model of the rest-hapi data provider for react-admin (src/index.js).   *)
(*                                                                         *)
(* The provider is a function (type, resource, params) -> Promise.  One   *)
(* call has a synchronous part (the request is built and handed to the    *)
(* HTTP transport, httpClient) and an asynchronous part (the transport    *)
(* settles each request, and the promise reactions shape the result).     *)
(*                                                                         *)
(* Encoding of JavaScript values:                                          *)
(*   - scalars are strings; NULL and UNDEFINED are two reserved scalars;   *)
(*   - a flat object (record data, a server document, a built query) is a  *)
(*     function from keys to scalars;                                      *)
(*   - the filter object, which may be nested, is a function from key      *)
(*     paths to the scalars at its leaves;                                 *)
(*   - a JSON or query string is represented by the mapping it encodes     *)
(*     (entries that the encoder drops are dropped).                       *)
(***************************************************************************)
EXTENDS Integers, Sequences, FiniteSets, TLC

-----------------------------------------------------------------------------
(* Operation kinds (the constants imported from react-admin).              *)

GET_LIST == "GET_LIST"
GET_ONE == "GET_ONE"
GET_MANY == "GET_MANY"
GET_MANY_REFERENCE == "GET_MANY_REFERENCE"
CREATE == "CREATE"
UPDATE == "UPDATE"
UPDATE_MANY == "UPDATE_MANY"
DELETE == "DELETE"
DELETE_MANY == "DELETE_MANY"

TranslatedTypes ==
    {GET_LIST, GET_ONE, GET_MANY, GET_MANY_REFERENCE, CREATE, UPDATE, DELETE}
BulkTypes == {UPDATE_MANY, DELETE_MANY}
ListTypes == {GET_LIST, GET_MANY, GET_MANY_REFERENCE}
KnownTypes == TranslatedTypes \cup BulkTypes
UnknownTypes == {"PATCH_ALL", "getList"}
Types == KnownTypes \cup UnknownTypes

-----------------------------------------------------------------------------
(* Bounds of the model.                                                    *)

MaxIds == 2      \* longest params.ids
MaxDocs == 2     \* longest docs array in a list response
MaxTotal == 1    \* largest items.total in a list response

-----------------------------------------------------------------------------
(* JavaScript values.                                                      *)

NULL == "<null>"
UNDEFINED == "<undefined>"

Falsy(v) == v \in {"", NULL, UNDEFINED}
Truthy(v) == ~Falsy(v)

NoFields == [k \in {} |-> ""]

\* A value held in a result: an object with fields, or a bare scalar.
Obj(r) == [tag |-> "object", scalar |-> "", fields |-> r]
Scalar(s) == [tag |-> "scalar", scalar |-> s, fields |-> NoFields]

-----------------------------------------------------------------------------
(* Inputs of the caller and of the server.                                 *)

apiUrl == "base"
Resources == {"posts"}
Ids == {"", "1", "2"}
RefIds == {"1"}
Targets == {"post_id", "title"}
Errors == {"E1", "E2"}

IdSeqs == UNION {[1..n -> Ids] : n \in 0..MaxIds}

Paginations == {[page |-> "1", perPage |-> "24"], [page |-> "2", perPage |-> "24"]}
Sorts == [field : {"", "id", "title"}, order : {"ASC", "DESC"}]

\* Record data supplied to create / update: a name, plus housekeeping keys.
CleanedKeys == {"id", "createdAt", "updatedAt", "deletedAt", "isDeleted"}
ExtraKeys == CleanedKeys \cup {"_id"}
DataValue(k) ==
    CASE k = "id" -> "1"
      [] k = "_id" -> "9"
      [] k = "name" -> "x"
      [] k = "isDeleted" -> "false"
      [] OTHER -> "t"
DataOf(S) == [k \in S \cup {"name"} |-> DataValue(k)]
Datas == {DataOf(S) : S \in {{}} \cup {{k} : k \in ExtraKeys} \cup {ExtraKeys}}

\* Filter objects: leaves keyed by path.  q may be a scalar (also the empty
\* string or null) or a nested object.
PathValues(p) ==
    CASE p = <<"q">> -> {"x", "", NULL}
      [] p = <<"$sort">> -> {"old"}
      [] OTHER -> {"x"}
FilterPaths == {<<"q">>, <<"q", "sub">>, <<"$sort">>, <<"author", "name">>}
WellFormedPaths(P) == ~({<<"q">>, <<"q", "sub">>} \subseteq P)
Filters ==
    UNION {{f \in [P -> {"x", "", NULL, "old"}] : \A p \in P : f[p] \in PathValues(p)} :
             P \in {Q \in SUBSET FilterPaths : WellFormedPaths(Q)}}
EmptyFilter == [p \in {} |-> ""]

\* Server documents and list bodies.
Docs == {[k \in {"_id", "title"} |-> IF k = "_id" THEN i ELSE "A"] : i \in Ids}
DocSeqs == UNION {[1..n -> Docs] : n \in 0..MaxDocs}
ListBodies == [docs : DocSeqs, items : [total : 0..MaxTotal]]

DefaultParams ==
    [pagination |-> [page |-> "1", perPage |-> "24"],
     sort |-> [field |-> "", order |-> "ASC"],
     filter |-> EmptyFilter,
     id |-> "1",
     ids |-> <<>>,
     target |-> "post_id",
     data |-> DataOf({})]

\* The params objects a caller passes for a kind.  The caller may pass on the
\* filter or data object it used for its previous call.
ParamsFor(t, cur) ==
    CASE t = GET_LIST ->
           {[DefaultParams EXCEPT !.pagination = pg, !.sort = s, !.filter = f] :
              pg \in Paginations, s \in Sorts, f \in Filters \cup {cur.filter}}
      [] t = GET_MANY_REFERENCE ->
           {[DefaultParams EXCEPT !.sort = x[1], !.filter = x[2], !.target = x[3], !.id = x[4]] :
              x \in Sorts \X (Filters \cup {cur.filter}) \X Targets \X RefIds}
      [] t \in {GET_ONE, DELETE} ->
           {[DefaultParams EXCEPT !.id = i] : i \in Ids}
      [] t \in {GET_MANY, DELETE_MANY} ->
           {[DefaultParams EXCEPT !.ids = is] : is \in IdSeqs}
      [] t = UPDATE ->
           {[DefaultParams EXCEPT !.id = i, !.data = d] :
              i \in Ids, d \in Datas \cup {cur.data}}
      [] t = CREATE ->
           {[DefaultParams EXCEPT !.data = d] : d \in Datas \cup {cur.data}}
      [] t = UPDATE_MANY ->
           {[DefaultParams EXCEPT !.ids = is, !.data = d] :
              is \in IdSeqs, d \in Datas \cup {cur.data}}
      [] OTHER -> {DefaultParams}

-----------------------------------------------------------------------------
(* Objects keyed by path (the filter).                                     *)

Root(f, k) == {p \in DOMAIN f : p[1] = k}
HasKey(f, k) == Root(f, k) # {}

\* f[k] != null
NotNullish(f, k) ==
    /\ HasKey(f, k)
    /\ ~(<<k>> \in DOMAIN f /\ f[<<k>>] \in {NULL, UNDEFINED})

\* f[k] = v, v a scalar
SetScalar(f, k, v) ==
    [p \in (DOMAIN f \ Root(f, k)) \cup {<<k>>} |-> IF p = <<k>> THEN v ELSE f[p]]

\* f[to] = f[from]; delete f[from]
MoveKey(f, from, to) ==
    LET moved == {<<to>> \o Tail(p) : p \in Root(f, from)}
        kept == DOMAIN f \ (Root(f, from) \cup Root(f, to))
    IN  [p \in kept \cup moved |->
           IF p \in moved THEN f[<<from>> \o Tail(p)] ELSE f[p]]

RECURSIVE JoinPath(_)
JoinPath(p) ==
    IF Len(p) = 1 THEN p[1] ELSE p[1] \o "." \o JoinPath(Tail(p))

\* fetchUtils.flattenObject: nested objects become dotted keys.
flattenObject(f) ==
    [k \in {JoinPath(p) : p \in DOMAIN f} |->
       f[CHOOSE p \in DOMAIN f : JoinPath(p) = k]]

\* query-string stringify: undefined entries are skipped.
stringify(obj) == [k \in {j \in DOMAIN obj : obj[j] # UNDEFINED} |-> obj[k]]

\* JSON.stringify of a flat object: undefined entries are skipped.
JSONstringify(obj) == [k \in {j \in DOMAIN obj : obj[j] # UNDEFINED} |-> obj[k]]

-----------------------------------------------------------------------------
(* getQueryForParams                                                       *)

SortPrefix(order) == IF order = "DESC" THEN "-" ELSE ""

\* lines 31-37: params.filter.$sort is assigned when a sort field is given.
FilterWithSort(params) ==
    IF Truthy(params.sort.field)
    THEN SetScalar(params.filter, "$sort",
                   SortPrefix(params.sort.order) \o params.sort.field)
    ELSE params.filter

getQueryForParams_filter_keepsQ(params) ==
    LET f == FilterWithSort(params)
    IN  IF NotNullish(f, "q")
        THEN [p \in DOMAIN MoveKey(f, "q", "$term") \cup Root(f, "q") |->
                IF p \in Root(f, "q") THEN f[p] ELSE MoveKey(f, "q", "$term")[p]]
        ELSE f

\* params.filter as the call leaves it (lines 31-41).
getQueryForParams_filter(params) ==
    LET f == FilterWithSort(params)
    IN  IF NotNullish(f, "q") THEN MoveKey(f, "q", "$term") ELSE f

getQueryForParams_sortFromFilter(params) ==
    LET flat == flattenObject(getQueryForParams_filter(params))
    IN  [k \in DOMAIN flat \cup {"$limit", "$page"} |->
           IF k = "$limit" THEN params.pagination.perPage
           ELSE IF k = "$page" THEN params.pagination.page
           ELSE flat[k]]

\* The returned query (lines 42-51): Object.assign of the flattened filter,
\* the pagination and the optional sort, later sources overriding earlier.
getQueryForParams(params) ==
    LET flat == flattenObject(getQueryForParams_filter(params))
        field == params.sort.field
        sorted == IF Truthy(field) THEN {"$sort"} ELSE {}
    IN  [k \in DOMAIN flat \cup {"$limit", "$page"} \cup sorted |->
           IF k \in sorted
           THEN SortPrefix(params.sort.order) \o (IF field = "id" THEN "_id" ELSE field)
           ELSE IF k = "$limit" THEN params.pagination.perPage
           ELSE IF k = "$page" THEN params.pagination.page
           ELSE flat[k]]

-----------------------------------------------------------------------------
(* cleanData                                                               *)

cleanData(params) ==
    LET clean == [k \in DOMAIN params.data \ CleanedKeys |-> params.data[k]]
    IN  JSONstringify(clean)

-----------------------------------------------------------------------------
(* convertDataRequestToHTTP                                                *)

NoError == [message |-> "", type |-> ""]
NoUrl == [path |-> <<>>, sep |-> "", search |-> <<>>]

Built(url, options) ==
    [threw |-> FALSE, error |-> NoError, url |-> url, options |-> options]
Thrown(message, type) ==
    [threw |-> TRUE, error |-> [message |-> message, type |-> type],
     url |-> NoUrl, options |-> NoFields]

ItemUrl(resource, id) == [path |-> <<apiUrl, resource, id>>, sep |-> "", search |-> <<>>]
CollectionUrl(resource) == [path |-> <<apiUrl, resource>>, sep |-> "", search |-> <<>>]
QueryUrl(resource, parts) == [path |-> <<apiUrl, resource>>, sep |-> "?", search |-> parts]

\* query[params.target] = params.id
WithTarget(query, params) ==
    [k \in DOMAIN query \cup {params.target} |->
       IF k = params.target THEN params.id ELSE query[k]]

convertDataRequestToHTTP_noDefault(type, resource, params) ==
    CASE type = GET_LIST ->
           Built(QueryUrl(resource, <<stringify(getQueryForParams(params))>>), NoFields)
      [] type = GET_ONE ->
           Built(ItemUrl(resource, params.id), NoFields)
      [] type = GET_MANY_REFERENCE ->
           Built(QueryUrl(resource,
                          <<stringify(WithTarget(getQueryForParams(params), params))>>),
                 NoFields)
      [] type = UPDATE ->
           Built(ItemUrl(resource, params.id),
                 [method |-> "PUT", body |-> cleanData(params)])
      [] type = CREATE ->
           Built(CollectionUrl(resource),
                 [method |-> "POST", body |-> cleanData(params)])
      [] type = DELETE ->
           Built(ItemUrl(resource, params.id), [method |-> "DELETE"])
      [] type = GET_MANY ->
           Built(QueryUrl(resource,
                          [i \in 1..Len(params.ids) |-> stringify([_id |-> params.ids[i]])]),
                 NoFields)
      [] OTHER -> Built(NoUrl, NoFields)

convertDataRequestToHTTP_patch(type, resource, params) ==
    CASE type = GET_LIST ->
           Built(QueryUrl(resource, <<stringify(getQueryForParams(params))>>), NoFields)
      [] type = GET_ONE ->
           Built(ItemUrl(resource, params.id), NoFields)
      [] type = GET_MANY_REFERENCE ->
           Built(QueryUrl(resource,
                          <<stringify(WithTarget(getQueryForParams(params), params))>>),
                 NoFields)
      [] type = UPDATE ->
           Built(ItemUrl(resource, params.id),
                 [method |-> "PATCH", body |-> cleanData(params)])
      [] type = CREATE ->
           Built(CollectionUrl(resource),
                 [method |-> "POST", body |-> cleanData(params)])
      [] type = DELETE ->
           Built(ItemUrl(resource, params.id), [method |-> "DELETE"])
      [] type = GET_MANY ->
           Built(QueryUrl(resource,
                          [i \in 1..Len(params.ids) |-> stringify([_id |-> params.ids[i]])]),
                 NoFields)
      [] OTHER -> Thrown("Unsupported fetch action type", type)

\* The request built for a kind, or the error thrown (lines 70-110).
convertDataRequestToHTTP(type, resource, params) ==
    CASE type = GET_LIST ->
           Built(QueryUrl(resource, <<stringify(getQueryForParams(params))>>), NoFields)
      [] type = GET_ONE ->
           Built(ItemUrl(resource, params.id), NoFields)
      [] type = GET_MANY_REFERENCE ->
           Built(QueryUrl(resource,
                          <<stringify(WithTarget(getQueryForParams(params), params))>>),
                 NoFields)
      [] type = UPDATE ->
           Built(ItemUrl(resource, params.id),
                 [method |-> "PUT", body |-> cleanData(params)])
      [] type = CREATE ->
           Built(CollectionUrl(resource),
                 [method |-> "POST", body |-> cleanData(params)])
      [] type = DELETE ->
           Built(ItemUrl(resource, params.id), [method |-> "DELETE"])
      [] type = GET_MANY ->
           Built(QueryUrl(resource,
                          [i \in 1..Len(params.ids) |-> stringify([_id |-> params.ids[i]])]),
                 NoFields)
      [] OTHER -> Thrown("Unsupported fetch action type", type)

\* The caller's params object after the request was built: getQueryForParams
\* writes to params.filter.
convertDataRequestToHTTP_params(type, params) ==
    IF type \in {GET_LIST, GET_MANY_REFERENCE}
    THEN [params EXCEPT !.filter = getQueryForParams_filter(params)]
    ELSE params

\* The method of the HTTP request: a request whose options name no method is
\* sent with the transport's default, GET (header comment, lines 20-22).
HttpMethod(options) ==
    IF "method" \in DOMAIN options THEN options.method ELSE "GET"

-----------------------------------------------------------------------------
(* convertHTTPResponse                                                     *)

\* o.id = o._id; delete o._id
IdFromUnderscoreId(o) ==
    [k \in (DOMAIN o \ {"_id"}) \cup {"id"} |->
       IF k = "id" THEN (IF "_id" \in DOMAIN o THEN o["_id"] ELSE UNDEFINED)
       ELSE o[k]]

\* d => (d.id = d._id) && delete d._id && d   (line 126)
DocCallback(d) ==
    LET assigned == IF "_id" \in DOMAIN d THEN d["_id"] ELSE UNDEFINED
    IN  IF Falsy(assigned) THEN Scalar(assigned) ELSE Obj(IdFromUnderscoreId(d))

convertHTTPResponse(response, type, resource, params) ==
    CASE type \in ListTypes ->
           [data |-> [i \in 1..Len(response.json.docs) |-> DocCallback(response.json.docs[i])],
            total |-> response.json.items.total]
      [] type = CREATE ->
           [data |-> Obj(IdFromUnderscoreId(params.data))]
      [] OTHER ->
           [data |-> Obj(IdFromUnderscoreId(response.json))]

\* The caller's params object after the response was converted: the CREATE
\* branch writes to params.data (lines 130-131).
convertHTTPResponse_params(type, params) ==
    IF type = CREATE
    THEN [params EXCEPT !.data = IdFromUnderscoreId(params.data)]
    ELSE params

-----------------------------------------------------------------------------
(* The bulk fan-out and Promise.all                                        *)

\* params.ids.map(id => httpClient(url, options)), lines 150-155 and 163-167
FanOutRequests(type, resource, params) ==
    [i \in 1..Len(params.ids) |->
       [url |-> ItemUrl(resource, params.ids[i]),
        options |-> IF type = UPDATE_MANY
                    THEN [method |-> "PATCH", body |-> JSONstringify(params.data)]
                    ELSE [method |-> "DELETE"]]]

PromiseAllReject_last(state, reason, e) ==
    [outcome |-> "rejected", error |-> e]

\* Promise.all when an element rejects with e: the first rejection settles
\* the aggregate, later ones are ignored.
PromiseAllReject(state, reason, e) ==
    IF state = "pending"
    THEN [outcome |-> "rejected", error |-> e]
    ELSE [outcome |-> state, error |-> reason]

PromiseAllValues_arrival(rs, order) ==
    [k \in 1..Len(rs) |-> rs[order[k]]]

\* Promise.all when every element is fulfilled: the values, by index.
PromiseAllValues(rs, order) ==
    [k \in 1..Len(rs) |-> rs[k]]

\* responses => ({ data: responses.map(response => response.json) })
FanOutResult(values) ==
    [data |-> [k \in 1..Len(values) |-> Obj(values[k].json)]]

-----------------------------------------------------------------------------
(* State                                                                   *)

VARIABLES
    params,      \* the caller's params object (the adapter writes to it)
    given,       \* the params as the caller passed them to the current call
    type,        \* kind of the current call, "" before the first call
    resource,    \* resource of the current call
    requests,    \* httpClient calls of the current call, in call order
    responses,   \* per request: pending, fulfilled with json, or rejected
    settled,     \* indices of the requests in the order they completed
    outcome,     \* idle, threw, pending, resolved, rejected
    result,      \* value of the returned promise when resolved
    error,       \* reason of the returned promise when rejected
    thrown       \* error thrown by the call itself

vars == <<params, given, type, resource, requests, responses, settled,
          outcome, result, error, thrown>>

NoResult == [data |-> <<>>]
Pending == [state |-> "pending", json |-> NoFields, error |-> ""]

BodiesFor(t) == IF t \in ListTypes THEN ListBodies ELSE Docs

AllFulfilled(rs) == \A k \in 1..Len(rs) : rs[k].state = "fulfilled"

Init ==
    /\ params = DefaultParams
    /\ given = DefaultParams
    /\ type = ""
    /\ resource = ""
    /\ requests = <<>>
    /\ responses = <<>>
    /\ settled = <<>>
    /\ outcome = "idle"
    /\ result = NoResult
    /\ error = ""
    /\ thrown = NoError

\* The synchronous part of a call of the provider (lines 146-177).
Invoke(t, r, p) ==
    /\ outcome = "idle"
    /\ type' = t
    /\ resource' = r
    /\ given' = p
    /\ settled' = <<>>
    /\ result' = NoResult
    /\ error' = ""
    /\ IF t \in BulkTypes
       THEN /\ requests' = FanOutRequests(t, r, p)
            /\ responses' = [i \in 1..Len(p.ids) |-> Pending]
            /\ outcome' = IF Len(p.ids) = 0 THEN "resolved" ELSE "pending"
            /\ thrown' = NoError
            /\ params' = p
       ELSE LET http == convertDataRequestToHTTP(t, r, p)
            IN  /\ params' = convertDataRequestToHTTP_params(t, p)
                /\ thrown' = http.error
                /\ IF http.threw
                   THEN /\ requests' = <<>>
                        /\ responses' = <<>>
                        /\ outcome' = "threw"
                   ELSE /\ requests' = <<[url |-> http.url, options |-> http.options]>>
                        /\ responses' = <<Pending>>
                        /\ outcome' = "pending"

\* The transport fulfils request i with {json}, and the reactions run.
Fulfil(i, json) ==
    /\ i \in 1..Len(requests)
    /\ responses[i].state = "pending"
    /\ responses' = [responses EXCEPT ![i] = [state |-> "fulfilled", json |-> json, error |-> ""]]
    /\ settled' = Append(settled, i)
    /\ IF type \in BulkTypes
       THEN /\ IF outcome = "pending" /\ AllFulfilled(responses')
               THEN /\ outcome' = "resolved"
                    /\ result' = FanOutResult(PromiseAllValues(responses', settled'))
               ELSE UNCHANGED <<outcome, result>>
            /\ UNCHANGED params
       ELSE /\ outcome' = "resolved"
            /\ result' = convertHTTPResponse([json |-> json], type, resource, params)
            /\ params' = convertHTTPResponse_params(type, params)
    /\ UNCHANGED <<given, type, resource, requests, error, thrown>>

\* The transport rejects request i with e.
Reject(i, e) ==
    /\ i \in 1..Len(requests)
    /\ responses[i].state = "pending"
    /\ responses' = [responses EXCEPT ![i] = [state |-> "rejected", json |-> NoFields, error |-> e]]
    /\ settled' = Append(settled, i)
    /\ IF type \in BulkTypes
       THEN LET all == PromiseAllReject(outcome, error, e)
            IN  /\ outcome' = all.outcome
                /\ error' = all.error
       ELSE /\ outcome' = "rejected"
            /\ error' = e
    /\ UNCHANGED <<params, given, type, resource, requests, result, thrown>>

\* The caller has seen the call throw or its promise settle.  It drops the
\* promise and keeps the filter and data objects it passed, as the call left
\* them, for its next call.
Return ==
    /\ outcome \in {"threw", "resolved", "rejected"}
    /\ params' = [DefaultParams EXCEPT !.filter = params.filter, !.data = params.data]
    /\ given' = DefaultParams
    /\ type' = ""
    /\ resource' = ""
    /\ requests' = <<>>
    /\ responses' = <<>>
    /\ settled' = <<>>
    /\ outcome' = "idle"
    /\ result' = NoResult
    /\ error' = ""
    /\ thrown' = NoError

\* A call by the caller, who awaits the outcome of one call before the next.
Call ==
    /\ outcome = "idle"
    /\ \E t \in Types, r \in Resources : \E p \in ParamsFor(t, params) : Invoke(t, r, p)

Next ==
    \/ Call
    \/ \E i \in DOMAIN requests : \E json \in BodiesFor(type) : Fulfil(i, json)
    \/ \E i \in DOMAIN requests : \E e \in Errors : Reject(i, e)
    \/ Return

Spec == Init /\ [][Next]_vars

-----------------------------------------------------------------------------
(* Properties                                                              *)

QueryTypes == {GET_LIST, GET_MANY_REFERENCE}

\* The query encoded in the URL of a list or reference request.
BuiltQuery == requests[1].url.search[1]

\* The records (objects) of a result.
ResultObjects ==
    IF type \in ListTypes \cup BulkTypes
    THEN {result.data[k] : k \in {j \in 1..Len(result.data) : result.data[j].tag = "object"}}
    ELSE {result.data}

\* C1: no body handed to the transport (create, update, each per-id request
\* of update-many) contains id, createdAt, updatedAt, deletedAt or isDeleted.
C1_NoHousekeepingKeysSent ==
    \A i \in DOMAIN requests :
        "body" \in DOMAIN requests[i].options =>
            DOMAIN requests[i].options.body \cap CleanedKeys = {}

\* C2: for each of the nine kinds, every record of a resolved result has the
\* key id and no key _id.
C2_ResultRecordsExposeId ==
    (type \in KnownTypes /\ outcome = "resolved") =>
        \A o \in ResultObjects :
            "id" \in DOMAIN o.fields /\ "_id" \notin DOMAIN o.fields

\* C3: a call with an unrecognised kind throws during the call, the error
\* names the kind, and the transport is not invoked.
C3_UnknownKindThrows ==
    (type \in UnknownTypes) =>
        /\ outcome = "threw"
        /\ thrown = [message |-> "Unsupported fetch action type", type |-> type]
        /\ requests = <<>>

C3_Witness ==
    /\ type = "PATCH_ALL"
    /\ outcome = "threw"
    /\ thrown.type = "PATCH_ALL"

\* The first request to be rejected, in completion order.
FirstRejected ==
    settled[CHOOSE k \in 1..Len(settled) :
              /\ responses[settled[k]].state = "rejected"
              /\ \A j \in 1..(k - 1) : responses[settled[j]].state # "rejected"]

\* C4: update-many and delete-many send one request per id before any
\* response; once a request is rejected the call is rejected with the first
\* rejection in completion order and never resolves; all sibling requests
\* were sent and stay in flight.
C4_FanOutFailsFast ==
    (type \in BulkTypes) =>
        /\ Len(requests) = Len(given.ids)
        /\ \A i \in 1..Len(requests) :
               requests[i].url = [path |-> <<apiUrl, resource, given.ids[i]>>,
                                  sep |-> "", search |-> <<>>]
        /\ (\E i \in 1..Len(responses) : responses[i].state = "rejected") =>
               /\ outcome = "rejected"
               /\ error = responses[FirstRejected].error

\* The second request is rejected first, then the first one is rejected with
\* another error: the call keeps the earlier rejection.
C4_Witness ==
    /\ type = DELETE_MANY
    /\ given.ids = <<"1", "2">>
    /\ settled = <<2, 1>>
    /\ responses[2].state = "rejected" /\ responses[2].error = "E2"
    /\ responses[1].state = "rejected" /\ responses[1].error = "E1"
    /\ outcome = "rejected"
    /\ error = "E2"

\* C5: when every per-id request succeeds, update-many and delete-many
\* resolve exactly when all requests have completed, and the data lists the
\* raw response bodies in the order of params.ids.
C5_FanOutCollectsInIdOrder ==
    (type \in BulkTypes) =>
        /\ (outcome = "resolved") <=> AllFulfilled(responses)
        /\ (outcome = "resolved") =>
               /\ Len(result.data) = Len(given.ids)
               /\ \A k \in 1..Len(given.ids) :
                      /\ result.data[k].tag = "object"
                      /\ result.data[k].fields = responses[k].json

\* Two requests answered in reverse order with different bodies.
C5_Witness ==
    /\ type = UPDATE_MANY
    /\ Len(given.ids) = 2
    /\ settled = <<2, 1>>
    /\ outcome = "resolved"
    /\ responses[1].json # responses[2].json

ExpectedMethod(t) ==
    CASE t = CREATE -> "POST"
      [] t = UPDATE -> "PUT"
      [] t = DELETE -> "DELETE"
      [] OTHER -> "GET"

ExpectedSort(sort) ==
    CASE sort = [field |-> "title", order |-> "DESC"] -> "-title"
      [] sort = [field |-> "title", order |-> "ASC"] -> "title"
      [] sort = [field |-> "id", order |-> "DESC"] -> "-_id"
      [] sort = [field |-> "id", order |-> "ASC"] -> "_id"

\* C7: for list and get-many-by-reference with a sort field, the built query
\* has $sort equal to the field (id replaced by _id), prefixed with - exactly
\* for DESC, whatever $sort the filter already had.
C7_SortInQuery ==
    (type \in QueryTypes /\ Truthy(given.sort.field)) =>
        /\ "$sort" \in DOMAIN BuiltQuery
        /\ BuiltQuery["$sort"] = ExpectedSort(given.sort)

C7_Witness ==
    /\ type = GET_MANY_REFERENCE
    /\ given.sort = [field |-> "id", order |-> "ASC"]
    /\ <<"$sort">> \in DOMAIN given.filter
    /\ BuiltQuery["$sort"] = "_id"

\* C8: for list, get-many and get-many-by-reference the data has the length
\* and order of docs, each element is the document with _id moved to id
\* (also for a falsy identifier), and total is items.total.
C8_ListResultMapsDocs ==
    (type \in ListTypes /\ outcome = "resolved") =>
        LET docs == responses[1].json.docs
        IN  /\ Len(result.data) = Len(docs)
            /\ \A k \in 1..Len(docs) :
                   /\ result.data[k].tag = "object"
                   /\ DOMAIN result.data[k].fields = (DOMAIN docs[k] \ {"_id"}) \cup {"id"}
                   /\ result.data[k].fields["id"] = docs[k]["_id"]
                   /\ result.data[k].fields["title"] = docs[k]["title"]
            /\ result.total = responses[1].json.items.total

\* C9: building the request leaves the caller's params as the caller passed
\* them.
C9_TranslationLeavesParams ==
    (type \in KnownTypes /\ outcome = "pending") => params = given

\* C10 as stated: whenever the filter has the key q, with any value, the
\* built query has $term with that value and no q.
C10_AnyQBecomesTerm ==
    (type \in QueryTypes /\ HasKey(given.filter, "q")) =>
        /\ "$term" \in DOMAIN BuiltQuery
        /\ "q" \notin DOMAIN BuiltQuery
        /\ (<<"q">> \in DOMAIN given.filter) =>
               BuiltQuery["$term"] = given.filter[<<"q">>]

\* C10: whenever the filter has the key q with a scalar value that is not
\* null, the built query has $term with that value and no q.
C10_NonNullQBecomesTerm ==
    (/\ type \in QueryTypes
     /\ <<"q">> \in DOMAIN given.filter
     /\ given.filter[<<"q">>] \notin {NULL, UNDEFINED}) =>
        /\ "$term" \in DOMAIN BuiltQuery
        /\ "q" \notin DOMAIN BuiltQuery
        /\ BuiltQuery["$term"] = given.filter[<<"q">>]

\* The empty string is falsy but not null: it is renamed too.
C10_Witness ==
    /\ type = GET_LIST
    /\ <<"q">> \in DOMAIN given.filter
    /\ given.filter[<<"q">>] = ""
    /\ BuiltQuery["$term"] = ""

====
